---- MODULE Spec2Model ----
(***************************************************************************)
(* Model of docs/generate_roadmap.py: the roadmap diagram renderer.        *)
(*                                                                         *)
(* The canvas is modelled as the sequence `ops` of the drawing primitives  *)
(* issued on it (ImageDraw calls), in order.  `steps` is the sequence of   *)
(* the calls main itself makes (title, phase boxes, arrows, legend, notes, *)
(* connector, save).  The filesystem is the pair `exists` (font files that *)
(* are present) and `loadable` (present font files that ImageFont.truetype *)
(* opens without raising).  `textw` is the width ImageDraw.textbbox        *)
(* reports, which is the rendering library's answer, not the script's.     *)
(* `saved` lists the files img.save has written, `printed` the lines       *)
(* printed to the console.                                                 *)
(***************************************************************************)
EXTENDS Integers, Sequences, FiniteSets, TLC

VARIABLES pc, exists, loadable, textw, fonts, ops, steps, x, i, arg, ret, saved, printed

vars == <<pc, exists, loadable, textw, fonts, ops, steps, x, i, arg, ret, saved, printed>>

(***************************************************************************)
(* Bounds of the model (inputs of the pure functions).                     *)
(***************************************************************************)
MaxCoord == 2
MaxXY == 1
MaxItems == 2
MaxMethods == 2
MaxSize == 1
MaxTextW == 1

(***************************************************************************)
(* Configuration (module level constants of the script).                   *)
(***************************************************************************)
WIDTH == 1600
HEIGHT == 1200
BACKGROUND_COLOR == <<255, 255, 255>>
TITLE_COLOR == <<26, 26, 46>>
SUBTITLE_COLOR == <<102, 102, 102>>

PHASE_COLORS ==
  [completed     |-> <<(<<213, 232, 212>>), (<<130, 179, 102>>)>>,
   high          |-> <<(<<255, 242, 204>>), (<<214, 182, 86>>)>>,
   medium_blue   |-> <<(<<218, 232, 252>>), (<<108, 142, 191>>)>>,
   medium_purple |-> <<(<<225, 213, 231>>), (<<150, 115, 166>>)>>,
   medium_red    |-> <<(<<248, 206, 204>>), (<<184, 84, 80>>)>>,
   low_orange    |-> <<(<<255, 230, 204>>), (<<215, 155, 0>>)>>,
   low_green     |-> <<(<<213, 232, 212>>), (<<86, 167, 100>>)>>,
   optional      |-> <<(<<245, 245, 245>>), (<<102, 102, 102>>)>>]

(***************************************************************************)
(* Drawing primitives: one record per ImageDraw call.  xy holds the        *)
(* coordinates of the call, flattened (a polygon's three points are six    *)
(* numbers).                                                               *)
(***************************************************************************)
NoColor == <<>>

Prim(op, xy, radius, fill, outline, width, txt, font) ==
  [op |-> op, xy |-> xy, radius |-> radius, fill |-> fill,
   outline |-> outline, width |-> width, text |-> txt, font |-> font]

rounded_rectangle(xy, radius, fill, outline, width) ==
  Prim("rounded_rectangle", xy, radius, fill, outline, width, "", "")

rectangle(xy, fill, outline) ==
  Prim("rectangle", xy, 0, fill, outline, 1, "", "")

text(xy, txt, fill, font) ==
  Prim("text", xy, 0, fill, NoColor, 0, txt, font)

line(xy, fill, width) ==
  Prim("line", xy, 0, fill, NoColor, width, "", "")

polygon(xy, fill) ==
  Prim("polygon", xy, 0, fill, NoColor, 0, "", "")

\* ImageDraw.textbbox((0, 0), t, font): bbox[2] - bbox[0], the measured width.
textbbox_w(t, font) == textw

(***************************************************************************)
(* get_font                                                                *)
(***************************************************************************)
font_paths(bold) ==
  << IF bold THEN "/usr/share/fonts/truetype/dejavu/DejaVuSans-Bold.ttf"
             ELSE "/usr/share/fonts/truetype/dejavu/DejaVuSans.ttf",
     IF bold THEN "/usr/share/fonts/truetype/liberation/LiberationSans-Bold.ttf"
             ELSE "/usr/share/fonts/truetype/liberation/LiberationSans-Regular.ttf",
     IF bold THEN "/usr/share/fonts/TTF/DejaVuSans-Bold.ttf"
             ELSE "/usr/share/fonts/TTF/DejaVuSans.ttf" >>

AllFontPaths == {font_paths(b)[k] : b \in BOOLEAN, k \in 1..3}

\* ImageFont.load_default()
load_default == [kind |-> "default", path |-> "", size |-> 0]

\* ImageFont.truetype(path, size), when it does not raise
truetype(path, size) == [kind |-> "truetype", path |-> path, size |-> size]

NoFont == [kind |-> "none", path |-> "", size |-> 0]

\* The body of the try block: the loop over font_paths.  It returns from the
\* first path that exists when truetype opens it, raises when truetype raises
\* on it, and falls through the loop when no path exists.
get_font_try(size, bold) ==
  LET paths == font_paths(bold)
      found == {k \in 1..Len(paths) : paths[k] \in exists}
  IN  IF found = {}
      THEN [outcome |-> "fallthrough", font |-> NoFont]
      ELSE LET first == CHOOSE k \in found : \A j \in found : k <= j
           IN  IF paths[first] \in loadable
               THEN [outcome |-> "return", font |-> truetype(paths[first], size)]
               ELSE [outcome |-> "raise", font |-> NoFont]

\* get_font without its except clause: an error of truetype propagates.
get_font_no_except(size, bold) ==
  LET t == get_font_try(size, bold)
  IN  CASE t.outcome = "return" -> t
        [] t.outcome = "raise" -> t
        [] OTHER -> [outcome |-> "return", font |-> load_default]

\* get_font that keeps looking after the first existing path failed to be
\* the one returned: it returns the last existing candidate.
get_font_last(size, bold) ==
  LET paths == font_paths(bold)
      found == {k \in 1..Len(paths) : paths[k] \in exists}
  IN  IF found = {}
      THEN [outcome |-> "return", font |-> load_default]
      ELSE LET last == CHOOSE k \in found : \A j \in found : j <= k
           IN  IF paths[last] \in loadable
               THEN [outcome |-> "return", font |-> truetype(paths[last], size)]
               ELSE [outcome |-> "return", font |-> load_default]

\* try: <loop>  except: pass  ...  return ImageFont.load_default()
get_font(size, bold) ==
  LET t == get_font_try(size, bold)
  IN  CASE t.outcome = "return" -> t
        [] t.outcome = "raise" -> [outcome |-> "return", font |-> load_default]
        [] OTHER -> [outcome |-> "return", font |-> load_default]

(***************************************************************************)
(* draw_rounded_rect                                                       *)
(***************************************************************************)
draw_rounded_rect(xy, radius, fill, outline, width) ==
  << rounded_rectangle(<<xy[1], xy[2], xy[3], xy[4]>>, radius, fill, outline, width) >>

(***************************************************************************)
(* draw_arrow                                                              *)
(***************************************************************************)
arrow_size == 8
ARROW_COLOR == <<100, 100, 100>>

\* draw_arrow with the arrowhead drawn only for the two supported directions.
draw_arrow_strict(start, end, color) ==
  LET x1 == start[1]
      y1 == start[2]
      x2 == end[1]
      y2 == end[2]
  IN  << line(<<x1, y1, x2, y2>>, color, 2) >> \o
      ( IF x2 > x1 /\ y2 = y1
        THEN << polygon(<<x2, y2,
                          x2 - arrow_size, y2 - arrow_size \div 2,
                          x2 - arrow_size, y2 + arrow_size \div 2>>, color) >>
        ELSE IF y2 > y1 /\ x2 = x1
        THEN << polygon(<<x2, y2,
                          x2 - arrow_size \div 2, y2 - arrow_size,
                          x2 + arrow_size \div 2, y2 - arrow_size>>, color) >>
        ELSE << >> )

draw_arrow(start, end, color) ==
  LET x1 == start[1]
      y1 == start[2]
      x2 == end[1]
      y2 == end[2]
  IN  << line(<<x1, y1, x2, y2>>, color, 2) >> \o
      ( IF x2 > x1
        THEN << polygon(<<x2, y2,
                          x2 - arrow_size, y2 - arrow_size \div 2,
                          x2 - arrow_size, y2 + arrow_size \div 2>>, color) >>
        ELSE IF y2 > y1
        THEN << polygon(<<x2, y2,
                          x2 - arrow_size \div 2, y2 - arrow_size,
                          x2 + arrow_size \div 2, y2 - arrow_size>>, color) >>
        ELSE << >> )

(***************************************************************************)
(* draw_phase_box                                                          *)
(***************************************************************************)
header_h == 35
WHITE == <<255, 255, 255>>

\* item_h with a line height of 24 instead of 12.
item_h_tall(item_methods) == 15 + Len(item_methods) * 24 + 8

\* item_h = 15 + len(item_methods) * 12 + 8
item_h(item_methods) == 15 + Len(item_methods) * 12 + 8

\* for method in item_methods: draw.text(...); method_y += 12
RECURSIVE method_loop(_, _, _, _)
method_loop(bx, item_methods, k, method_y) ==
  IF k > Len(item_methods)
  THEN << >>
  ELSE << text(<<bx + 15, method_y>>, "- " \o item_methods[k], <<80, 80, 80>>, "normal_9") >>
       \o method_loop(bx, item_methods, k + 1, method_y + 12)

\* The item loop with the gap between item boxes left out of the running
\* offset (item_y += item_h).
RECURSIVE item_loop_no_gap(_, _, _, _, _, _)
item_loop_no_gap(bx, w, border, items, k, item_y) ==
  IF k > Len(items)
  THEN [ops |-> << >>, item_y |-> item_y]
  ELSE LET item_title == items[k][1]
           item_methods == items[k][2]
           h == item_h(item_methods)
           rest == item_loop_no_gap(bx, w, border, items, k + 1, item_y + h)
       IN  [ops |-> draw_rounded_rect(<<bx + 10, item_y, bx + w - 10, item_y + h>>,
                                      5, WHITE, border, 1)
                    \o << text(<<bx + 15, item_y + 3>>, item_title, <<0, 0, 0>>, "bold_10") >>
                    \o method_loop(bx, item_methods, 1, item_y + 16)
                    \o rest.ops,
            item_y |-> rest.item_y]

\* for item_title, item_methods in items: ... item_y += item_h + 5
RECURSIVE item_loop(_, _, _, _, _, _)
item_loop(bx, w, border, items, k, item_y) ==
  IF k > Len(items)
  THEN [ops |-> << >>, item_y |-> item_y]
  ELSE LET item_title == items[k][1]
           item_methods == items[k][2]
           h == item_h(item_methods)
           rest == item_loop(bx, w, border, items, k + 1, item_y + h + 5)
       IN  [ops |-> draw_rounded_rect(<<bx + 10, item_y, bx + w - 10, item_y + h>>,
                                      5, WHITE, border, 1)
                    \o << text(<<bx + 15, item_y + 3>>, item_title, <<0, 0, 0>>, "bold_10") >>
                    \o method_loop(bx, item_methods, 1, item_y + 16)
                    \o rest.ops,
            item_y |-> rest.item_y]

\* Returns the primitives drawn and the value returned (item_y).
draw_phase_box(bx, by, w, h, title, subtitle, items, color_key) ==
  LET fill == PHASE_COLORS[color_key][1]
      border == PHASE_COLORS[color_key][2]
      title_w == textbbox_w(title, "bold_12")
      sub_w == textbbox_w(subtitle, "normal_10")
      loop == item_loop(bx, w, border, items, 1, by + header_h + 15)
  IN  [ops |-> draw_rounded_rect(<<bx, by, bx + w, by + h>>, 10, fill, border, 2)
               \o draw_rounded_rect(<<bx + 5, by + 5, bx + w - 5, by + 5 + header_h>>,
                                    8, border, border, 1)
               \o << text(<<bx + (w - title_w) \div 2, by + 8>>, title, WHITE, "bold_12") >>
               \o ( IF subtitle # ""
                    THEN << text(<<bx + (w - sub_w) \div 2, by + 22>>, subtitle, WHITE,
                                 "normal_10") >>
                    ELSE << >> )
               \o loop.ops,
       ret |-> loop.item_y]

(***************************************************************************)
(* Layout constants of main.                                               *)
(***************************************************************************)
phase_w == 245
phase_h == 280
row1_y == 75
row2_y == 380
\* A gap as narrow as the arrows' two margins of 2.
gap_narrow == 2 + 2
gap == 15
start_x == 30
\* Row-2 boxes twice as wide as those of row 1.
phase_w2_wide == 2 * phase_w
phase_w2 == 330
legend_w == 240
notes_y == 690
notes_h == 100

\* The primitives of s, each marked with the section of the script that
\* issued it.
Tagged(sec, s) ==
  [k \in 1..Len(s) |->
     [sec |-> sec, op |-> s[k].op, xy |-> s[k].xy, radius |-> s[k].radius,
      fill |-> s[k].fill, outline |-> s[k].outline, width |-> s[k].width,
      text |-> s[k].text, font |-> s[k].font]]

NoArg == [none |-> TRUE]
NoRet == "None"
NoFonts == [none |-> TRUE]

(***************************************************************************)
(* main: the literal content.                                              *)
(***************************************************************************)
Phase(title, subtitle, color, items) ==
  [title |-> title, subtitle |-> subtitle, color |-> color, items |-> items]

phases_row1 ==
  << Phase("PHASE 1: FOUNDATION", "[COMPLETED]", "completed",
       << <<"Bucket Operations", <<"PutBucketAsync", "DeleteBucketAsync", "ListBucketsAsync">> >>,
          <<"Object Operations", <<"PutObjectAsync", "GetObjectAsync", "DeleteObjectAsync",
                                   "DeleteObjectsAsync">> >>,
          <<"Listing & Config", <<"ListObjectsV2Async", "IClientConfig", "IDisposable">> >> >>),
     Phase("PHASE 2: ESSENTIAL OPS", "Priority: HIGH", "high",
       << <<"Metadata Operations", <<"GetObjectMetadataAsync", "HeadBucketAsync",
                                     "DoesS3BucketExistAsync">> >>,
          <<"Copy Operations", <<"CopyObjectAsync (3)", "CopyPartAsync">> >>,
          <<"Pre-signed URLs", <<"GetPreSignedURL", "GetPreSignedURLAsync">> >> >>),
     Phase("PHASE 3: VERSIONING", "Priority: MEDIUM", "medium_blue",
       << <<"Schema Updates", <<"Version ID generation", "Version chain tracking",
                                "Delete markers">> >>,
          <<"Versioning Config", <<"GetBucketVersioningAsync", "PutBucketVersioningAsync">> >>,
          <<"Version Operations", <<"ListVersionsAsync", "GetObject w/ VersionId">> >> >>),
     Phase("PHASE 4: MULTIPART", "Priority: MEDIUM", "medium_purple",
       << <<"Schema Updates", <<"Upload tracking docs", "Part storage schema",
                                "State management">> >>,
          <<"Upload Lifecycle", <<"InitiateMultipartUploadAsync", "AbortMultipartUploadAsync",
                                  "CompleteMultipartUploadAsync">> >>,
          <<"Part Operations", <<"UploadPartAsync", "ListPartsAsync">> >> >>),
     Phase("PHASE 5: ACCESS CTRL", "Priority: MEDIUM", "medium_red",
       << <<"ACL Operations", <<"GetACLAsync", "PutACLAsync", "MakeObjectPublicAsync">> >>,
          <<"Bucket Policies", <<"GetBucketPolicyAsync", "PutBucketPolicyAsync",
                                 "DeleteBucketPolicyAsync">> >>,
          <<"Public Access", <<"GetPublicAccessBlockAsync", "PutPublicAccessBlockAsync">> >> >>) >>

phases_row2 ==
  << Phase("PHASE 6: BUCKET CONFIG", "Priority: LOW", "low_orange",
       << <<"Encryption", <<"GetBucketEncryptionAsync", "PutBucketEncryptionAsync">> >>,
          <<"Lifecycle Rules", <<"GetLifecycleConfigurationAsync",
                                 "PutLifecycleConfigurationAsync">> >>,
          <<"CORS & Website", <<"GetCORSConfigurationAsync", "PutBucketWebsiteAsync">> >> >>),
     Phase("PHASE 7: OBJECT FEATURES", "Priority: LOW", "low_green",
       << <<"Object Tagging", <<"GetObjectTaggingAsync", "PutObjectTaggingAsync">> >>,
          <<"Object Lock", <<"GetObjectLockConfigurationAsync", "PutObjectRetentionAsync">> >>,
          <<"Legal Hold", <<"GetObjectLegalHoldAsync", "PutObjectLegalHoldAsync">> >> >>),
     Phase("PHASE 8: ADVANCED", "Priority: OPTIONAL", "optional",
       << <<"S3 Select", <<"SelectObjectContentAsync", "SQL-like query support">> >>,
          <<"Object Lambda", <<"WriteGetObjectResponseAsync">> >>,
          <<"Directory Buckets", <<"ListDirectoryBucketsAsync", "CreateSessionAsync">> >> >>) >>

legend_items ==
  << <<"completed", "Completed (16 methods)">>,
     <<"high", "High Priority (~15 methods)">>,
     <<"medium_blue", "Medium Priority (~35 methods)">>,
     <<"low_orange", "Low Priority (~50 methods)">>,
     <<"optional", "Optional (~40 methods)">> >>

stats ==
  << "Implementation Stats:", "", "Total Methods: ~156", "Implemented: 16",
     "Remaining: ~140", "", "Current: ~10%", "After Phase 2: ~20%",
     "After Phase 4: ~40%", "After Phase 6: ~70%", "Complete: 100%" >>

notes ==
  << "Storage Backend: Couchbase Lite (Document DB) | Framework: .NET 9 | Package: Couchbase.Lite 3.1.9",
     "Document Schema: Buckets (bucket::{name}), Objects (object::{bucket}::{key}), Versions (version::{bucket}::{key}::{versionId})",
     "Key Decisions: Use InBatch() for transactions | MD5-based ETags | Blob storage for content | Indexes for queries" >>

output_path == "/home/user/AWSSDK.Extensions/docs/S3-Couchbase-Implementation-Roadmap.png"

legend_y == row2_y
legend_h == phase_h

(***************************************************************************)
(* The pure functions, each called once on inputs drawn from bounded sets. *)
(***************************************************************************)
SeqsUpTo(S, n) == UNION {[1..k -> S] : k \in 0..n}

Coords == 0..MaxCoord

InitArrow ==
  /\ pc = "call"
  /\ exists = {} /\ loadable = {} /\ textw = 0
  /\ fonts = NoFonts /\ ops = << >> /\ steps = << >>
  /\ x = 0 /\ i = 0 /\ ret = NoRet /\ saved = << >> /\ printed = << >>
  /\ \E x1 \in Coords, y1 \in Coords, x2 \in Coords, y2 \in Coords :
        arg = [start |-> <<x1, y1>>, end |-> <<x2, y2>>]

CallDrawArrow ==
  /\ pc = "call"
  /\ ops' = ops \o Tagged("call", draw_arrow(arg.start, arg.end, ARROW_COLOR))
  /\ pc' = "returned"
  /\ UNCHANGED <<exists, loadable, textw, fonts, steps, x, i, arg, ret, saved, printed>>

NextArrow == CallDrawArrow

SpecArrow == InitArrow /\ [][NextArrow]_vars

Methods == SeqsUpTo({"m"}, MaxMethods)
Items == {<<"T", ms>> : ms \in Methods}

InitPhaseBox ==
  /\ pc = "call"
  /\ exists = {} /\ loadable = {}
  /\ textw \in 0..MaxTextW
  /\ fonts = NoFonts /\ ops = << >> /\ steps = << >>
  /\ x = 0 /\ i = 0 /\ ret = NoRet /\ saved = << >> /\ printed = << >>
  /\ \E bx \in 0..MaxXY, by \in 0..MaxXY, subtitle \in {"", "S"},
        items \in SeqsUpTo(Items, MaxItems) :
        arg = [x |-> bx, y |-> by, w |-> phase_w, h |-> phase_h, title |-> "P",
               subtitle |-> subtitle, items |-> items, color_key |-> "completed"]

CallDrawPhaseBox ==
  /\ pc = "call"
  /\ LET r == draw_phase_box(arg.x, arg.y, arg.w, arg.h, arg.title, arg.subtitle,
                             arg.items, arg.color_key)
     IN  /\ ops' = ops \o Tagged("call", r.ops)
         /\ ret' = r.ret
  /\ pc' = "returned"
  /\ UNCHANGED <<exists, loadable, textw, fonts, steps, x, i, arg, saved, printed>>

NextPhaseBox == CallDrawPhaseBox

SpecPhaseBox == InitPhaseBox /\ [][NextPhaseBox]_vars

InitFont ==
  /\ pc = "call"
  /\ exists \in SUBSET AllFontPaths
  /\ loadable \in SUBSET exists
  /\ textw = 0
  /\ fonts = NoFonts /\ ops = << >> /\ steps = << >>
  /\ x = 0 /\ i = 0 /\ ret = NoRet /\ saved = << >> /\ printed = << >>
  /\ \E size \in 0..MaxSize, bold \in BOOLEAN : arg = [size |-> size, bold |-> bold]

CallGetFont ==
  /\ pc = "call"
  /\ ret' = get_font(arg.size, arg.bold)
  /\ pc' = "returned"
  /\ UNCHANGED <<exists, loadable, textw, fonts, ops, steps, x, i, arg, saved, printed>>

NextFont == CallGetFont

SpecFont == InitFont /\ [][NextFont]_vars

(***************************************************************************)
(* main                                                                    *)
(***************************************************************************)
Step(step, fn, xy, items) == [step |-> step, fn |-> fn, xy |-> xy, items |-> items]

\* The order of the blocks of main with the connector drawn before the
\* notes box.
main_order_connector_first ==
  << "start", "load_fonts", "title", "row1", "row2", "legend", "connector", "notes",
     "save", "print1", "print2", "done" >>

\* The order of the blocks of main, top to bottom.
main_order ==
  << "start", "load_fonts", "title", "row1", "row2", "legend", "notes", "connector",
     "save", "print1", "print2", "done" >>

next_pc(p) ==
  LET k == CHOOSE j \in 1..Len(main_order) : main_order[j] = p
  IN  main_order[k + 1]

Init ==
  /\ pc = "start"
  /\ exists \in SUBSET AllFontPaths
  /\ loadable \in SUBSET exists
  /\ textw \in 0..MaxTextW
  /\ fonts = NoFonts /\ ops = << >> /\ steps = << >>
  /\ x = 0 /\ i = 0 /\ arg = NoArg /\ ret = NoRet /\ saved = << >> /\ printed = << >>

\* img = Image.new(...); draw = ImageDraw.Draw(img)
CreateImage ==
  /\ pc = "start"
  /\ ops' = << >>
  /\ pc' = next_pc(pc)
  /\ UNCHANGED <<exists, loadable, textw, fonts, steps, x, i, arg, ret, saved, printed>>

LoadFonts ==
  /\ pc = "load_fonts"
  /\ fonts' = [title     |-> get_font(22, TRUE).font,
               subtitle  |-> get_font(13, FALSE).font,
               bold_12   |-> get_font(11, TRUE).font,
               bold_10   |-> get_font(10, TRUE).font,
               normal_10 |-> get_font(9, FALSE).font,
               normal_9  |-> get_font(8, FALSE).font,
               normal_8  |-> get_font(7, FALSE).font]
  /\ pc' = next_pc(pc)
  /\ UNCHANGED <<exists, loadable, textw, ops, steps, x, i, arg, ret, saved, printed>>

DrawTitle ==
  /\ pc = "title"
  /\ LET title == "IAmazonS3 Interface Implementation Roadmap"
         title_w == textbbox_w(title, "title")
         subtitle == "Couchbase Lite Backend | Total: 156+ Methods | Implemented: 16 (~10%) | Remaining: 140+"
         sub_w == textbbox_w(subtitle, "subtitle")
         t1 == <<(WIDTH - title_w) \div 2, 15>>
         t2 == <<(WIDTH - sub_w) \div 2, 42>>
     IN  /\ ops' = ops \o Tagged("title",
                      << text(t1, title, TITLE_COLOR, "title"),
                         text(t2, subtitle, SUBTITLE_COLOR, "subtitle") >>)
         /\ steps' = steps \o << Step("title", "draw.text", t1, << >>),
                                 Step("subtitle", "draw.text", t2, << >>) >>
  /\ x' = start_x
  /\ i' = 0
  /\ pc' = next_pc(pc)
  /\ UNCHANGED <<exists, loadable, textw, fonts, arg, ret, saved, printed>>

\* One iteration of a row's loop: the phase box, the arrow to the next phase
\* (except after the last), x += w + gap.
RowIter(row, phases, y, w) ==
  /\ pc = row
  /\ i < Len(phases)
  /\ LET ph == phases[i + 1]
         box == draw_phase_box(x, y, w, phase_h, ph.title, ph.subtitle, ph.items, ph.color)
         arrow_y == y + phase_h \div 2
         a1 == <<x + w + 2, arrow_y>>
         a2 == <<x + w + gap - 2, arrow_y>>
         more == i < Len(phases) - 1
     IN  /\ ops' = ops \o Tagged(row, box.ops)
                      \o (IF more THEN Tagged(row, draw_arrow(a1, a2, ARROW_COLOR)) ELSE << >>)
         /\ steps' = steps
                      \o << Step(row, "draw_phase_box", <<x, y, x + w, y + phase_h>>, ph.items) >>
                      \o (IF more
                          THEN << Step(row, "draw_arrow", <<a1[1], a1[2], a2[1], a2[2]>>, << >>) >>
                          ELSE << >>)
  /\ x' = x + w + gap
  /\ i' = i + 1
  /\ UNCHANGED <<pc, exists, loadable, textw, fonts, arg, ret, saved, printed>>

Row1Iter == RowIter("row1", phases_row1, row1_y, phase_w)

\* The loop over phases_row1 is exhausted: x = start_x for row 2.
Row1Done ==
  /\ pc = "row1"
  /\ i = Len(phases_row1)
  /\ x' = start_x
  /\ i' = 0
  /\ pc' = next_pc(pc)
  /\ UNCHANGED <<exists, loadable, textw, fonts, ops, steps, arg, ret, saved, printed>>

Row2Iter == RowIter("row2", phases_row2, row2_y, phase_w2)

\* The loop over phases_row2 is exhausted; x keeps its value for legend_x.
Row2Done ==
  /\ pc = "row2"
  /\ i = Len(phases_row2)
  /\ pc' = next_pc(pc)
  /\ UNCHANGED <<exists, loadable, textw, fonts, ops, steps, x, i, arg, ret, saved, printed>>

\* The primitives of the legend: box, header, five swatch/label rows,
\* separator line, statistics lines.
legend_ops(legend_x) ==
  LET item_y0 == legend_y + 40
      \* item_y after the legend_items loop (item_y += 22 each), then += 10
      sep_y == item_y0 + 22 * Len(legend_items) + 10
      stats_y0 == sep_y + 10
  IN  draw_rounded_rect(<<legend_x, legend_y, legend_x + legend_w, legend_y + legend_h>>,
                        10, WHITE, <<51, 51, 51>>, 1)
      \o draw_rounded_rect(<<legend_x + 5, legend_y + 5, legend_x + legend_w - 5, legend_y + 30>>,
                           5, <<51, 51, 51>>, <<51, 51, 51>>, 1)
      \o << text(<<legend_x + 40, legend_y + 10>>, "LEGEND & STATISTICS", WHITE, "bold_10") >>
      \o [k \in 1..(2 * Len(legend_items)) |->
            LET n == (k + 1) \div 2
                item_y == item_y0 + 22 * (n - 1)
                fill == PHASE_COLORS[legend_items[n][1]][1]
                border == PHASE_COLORS[legend_items[n][1]][2]
            IN  IF k % 2 = 1
                THEN rectangle(<<legend_x + 15, item_y, legend_x + 30, item_y + 15>>, fill, border)
                ELSE text(<<legend_x + 40, item_y>>, legend_items[n][2], <<0, 0, 0>>, "normal_10")]
      \o << line(<<legend_x + 15, sep_y, legend_x + legend_w - 15, sep_y>>, <<180, 180, 180>>, 1) >>
      \o [k \in 1..Len(stats) |->
            text(<<legend_x + 15, stats_y0 + 14 * (k - 1)>>, stats[k], <<60, 60, 60>>,
                 IF k = 1 THEN "bold_10" ELSE "normal_9")]

DrawLegend ==
  /\ pc = "legend"
  /\ LET legend_x == x + 10
     IN  /\ ops' = ops \o Tagged("legend", legend_ops(legend_x))
         /\ steps' = steps \o
               << Step("legend", "draw_rounded_rect",
                       <<legend_x, legend_y, legend_x + legend_w, legend_y + legend_h>>, << >>) >>
  /\ pc' = next_pc(pc)
  /\ UNCHANGED <<exists, loadable, textw, fonts, x, i, arg, ret, saved, printed>>

DrawNotes ==
  /\ pc = "notes"
  /\ LET box == <<start_x, notes_y, WIDTH - start_x, notes_y + notes_h>>
         note_y0 == notes_y + 30
     IN  /\ ops' = ops \o Tagged("notes",
                 draw_rounded_rect(box, 8, <<240, 240, 240>>, <<153, 153, 153>>, 1)
                 \o << text(<<start_x + 15, notes_y + 8>>, "TECHNICAL IMPLEMENTATION NOTES",
                            <<51, 51, 51>>, "bold_12") >>
                 \o [k \in 1..Len(notes) |->
                       text(<<start_x + 15, note_y0 + 18 * (k - 1)>>, notes[k],
                            <<100, 100, 100>>, "normal_10")])
         /\ steps' = steps \o << Step("notes", "draw_rounded_rect", box, << >>) >>
  /\ pc' = next_pc(pc)
  /\ UNCHANGED <<exists, loadable, textw, fonts, x, i, arg, ret, saved, printed>>

DrawConnector ==
  /\ pc = "connector"
  /\ LET arrow_start_x == start_x + 4 * (phase_w + gap) + phase_w \div 2
         s1 == <<arrow_start_x, row1_y + phase_h + 5>>
         e1 == <<arrow_start_x, row2_y - 10>>
         l  == <<arrow_start_x, row2_y - 10, start_x + phase_w2 \div 2, row2_y - 10>>
         s2 == <<start_x + phase_w2 \div 2, row2_y - 10>>
         e2 == <<start_x + phase_w2 \div 2, row2_y - 2>>
     IN  /\ ops' = ops \o Tagged("connector",
                 draw_arrow(s1, e1, ARROW_COLOR)
                 \o << line(l, <<100, 100, 100>>, 2) >>
                 \o draw_arrow(s2, e2, ARROW_COLOR))
         /\ steps' = steps \o
               << Step("connector", "draw_arrow", <<s1[1], s1[2], e1[1], e1[2]>>, << >>),
                  Step("connector", "draw.line", l, << >>),
                  Step("connector", "draw_arrow", <<s2[1], s2[2], e2[1], e2[2]>>, << >>) >>
  /\ pc' = next_pc(pc)
  /\ UNCHANGED <<exists, loadable, textw, fonts, x, i, arg, ret, saved, printed>>

\* img.save(output_path, 'PNG', quality=95) returns.
SaveOk ==
  /\ pc = "save"
  /\ steps' = steps \o << Step("save", "img.save", << >>, << >>) >>
  /\ saved' = saved \o << output_path >>
  /\ pc' = next_pc(pc)
  /\ UNCHANGED <<exists, loadable, textw, fonts, ops, x, i, arg, ret, printed>>

\* img.save raises and the handler swallows the error: main goes on.
SaveFailSwallowed ==
  /\ pc = "save"
  /\ steps' = steps \o << Step("save", "img.save", << >>, << >>) >>
  /\ pc' = next_pc(pc)
  /\ UNCHANGED <<exists, loadable, textw, fonts, ops, x, i, arg, ret, saved, printed>>

\* img.save raises (missing directory, permission denied); nothing catches
\* it, so main ends there.
SaveFail ==
  /\ pc = "save"
  /\ steps' = steps \o << Step("save", "img.save", << >>, << >>) >>
  /\ pc' = "crashed"
  /\ UNCHANGED <<exists, loadable, textw, fonts, ops, x, i, arg, ret, saved, printed>>

Print1 ==
  /\ pc = "print1"
  /\ printed' = printed \o << "Roadmap saved to: " \o output_path >>
  /\ pc' = next_pc(pc)
  /\ UNCHANGED <<exists, loadable, textw, fonts, ops, steps, x, i, arg, ret, saved>>

Print2 ==
  /\ pc = "print2"
  /\ printed' = printed \o << "Image size: " \o ToString(WIDTH) \o "x" \o ToString(HEIGHT) >>
  /\ pc' = next_pc(pc)
  /\ UNCHANGED <<exists, loadable, textw, fonts, ops, steps, x, i, arg, ret, saved>>

Next ==
  \/ CreateImage \/ LoadFonts \/ DrawTitle
  \/ Row1Iter \/ Row1Done \/ Row2Iter \/ Row2Done
  \/ DrawLegend \/ DrawNotes \/ DrawConnector
  \/ SaveOk \/ SaveFail
  \/ Print1 \/ Print2

Spec == Init /\ [][Next]_vars

(***************************************************************************)
(* Properties of the pure functions.                                       *)
(***************************************************************************)
IsRightHead(p, end) ==
  /\ p.op = "polygon"
  /\ p.xy = <<end[1], end[2], end[1] - 8, end[2] - 4, end[1] - 8, end[2] + 4>>

IsDownHead(p, end) ==
  /\ p.op = "polygon"
  /\ p.xy = <<end[1], end[2], end[1] - 4, end[2] - 8, end[1] + 4, end[2] - 8>>

Heads(s) == {k \in DOMAIN s : s[k].op = "polygon"}

EmitsRight(s, end) == Heads(s) # {} /\ \A k \in Heads(s) : IsRightHead(s[k], end)
EmitsDown(s, end) == Heads(s) # {} /\ \A k \in Heads(s) : IsDownHead(s[k], end)
EmitsNone(s) == Heads(s) = {}

RECURSIVE SumItems(_, _)
SumItems(items, k) ==
  IF k > Len(items) THEN 0
  ELSE (15 + 12 * Len(items[k][2]) + 8) + 5 + SumItems(items, k + 1)

\* C2 (as stated): the value draw_phase_box returns equals
\* headerHeight + topMargin + the sum over the items of
\* (itemBoxHeight(item) + interItemGap), for every position (x, y).
C2_AsStated ==
  pc = "returned" => ret = 35 + 15 + SumItems(arg.items, 1)

\* C2 (amended): the value draw_phase_box returns equals
\* y + headerHeight + topMargin + the sum over the items of
\* (itemBoxHeight(item) + interItemGap): an absolute canvas coordinate,
\* offset by the box's top edge y.
C2_ReturnedOffset ==
  pc = "returned" => ret = arg.y + 35 + 15 + SumItems(arg.items, 1)

\* A box with two items, one of them with methods, drawn below the top edge.
C2_Witness ==
  /\ pc = "returned"
  /\ arg.y > 0
  /\ Len(arg.items) = 2
  /\ \E k \in 1..2 : Len(arg.items[k][2]) > 0
  /\ ret > arg.y + 50

Candidates(bold) == {font_paths(bold)[k] : k \in 1..3}

\* C3: get_font never raises: whatever the size, the boldness, the set of
\* candidate files that exist and the outcome of loading one, it returns a
\* font handle, and the built-in default font when no candidate exists.
C3_NeverFails ==
  pc = "returned" =>
    /\ ret.outcome = "return"
    /\ ret.font.kind \in {"truetype", "default"}
    /\ (Candidates(arg.bold) \cap exists = {} => ret.font = load_default)

\* The first candidate exists, loading it raised, and get_font returned the
\* default font.
C3_Witness ==
  /\ pc = "returned"
  /\ font_paths(arg.bold)[1] \in exists \ loadable
  /\ ret.outcome = "return"
  /\ ret.font = load_default

FirstExisting(bold) ==
  LET paths == font_paths(bold)
  IN  IF paths[1] \in exists THEN paths[1]
      ELSE IF paths[2] \in exists THEN paths[2]
      ELSE IF paths[3] \in exists THEN paths[3]
      ELSE ""

\* C4 (as stated): get_font returns the font of the first candidate that
\* exists (DejaVu truetype, Liberation, DejaVu TTF; the bold files for
\* bold=True, the regular ones otherwise), never a later candidate when an
\* earlier one exists, and the default font only when no candidate exists.
C4_AsStated ==
  pc = "returned" =>
    /\ ret.outcome = "return"
    /\ IF FirstExisting(arg.bold) # ""
       THEN ret.font = [kind |-> "truetype", path |-> FirstExisting(arg.bold),
                        size |-> arg.size]
       ELSE ret.font.kind = "default"

\* C4 (amended): get_font returns the font of the first candidate that
\* exists, in the stated order and of the requested boldness, when loading
\* that file succeeds; it returns the default font when no candidate exists
\* and also when loading the first existing candidate raises (later
\* candidates are then not tried).  A later candidate is never returned
\* when an earlier one exists.
C4_FirstExisting ==
  pc = "returned" =>
    /\ ret.outcome = "return"
    /\ IF FirstExisting(arg.bold) # "" /\ FirstExisting(arg.bold) \in loadable
       THEN ret.font = [kind |-> "truetype", path |-> FirstExisting(arg.bold),
                        size |-> arg.size]
       ELSE ret.font.kind = "default"
    /\ ret.font.kind = "truetype" => ret.font.path \in Candidates(arg.bold)

\* The first candidate is missing, the second and third exist and load, and
\* the second was returned.
C4_Witness ==
  /\ pc = "returned"
  /\ font_paths(arg.bold)[1] \notin exists
  /\ font_paths(arg.bold)[2] \in loadable
  /\ font_paths(arg.bold)[3] \in loadable
  /\ ret.font.kind = "truetype"
  /\ ret.font.path = font_paths(arg.bold)[2]

(***************************************************************************)
(* Properties of main.                                                     *)
(***************************************************************************)
StepsOf(fns) == {k \in DOMAIN steps : steps[k].fn \in fns}

RECURSIVE SumItemHeights(_, _)
SumItemHeights(items, k) ==
  IF k > Len(items) THEN 0
  ELSE (15 + 12 * Len(items[k][2]) + 8) + SumItemHeights(items, k + 1)

\* The item boxes drawn on the canvas for the phase box of step k: the
\* rounded rectangles of radius 5 of its row, 10 to the right of its left edge.
ItemBoxes(k) ==
  {n \in DOMAIN ops :
     /\ ops[n].sec = steps[k].step
     /\ ops[n].op = "rounded_rectangle"
     /\ ops[n].radius = 5
     /\ ops[n].xy[1] = steps[k].xy[1] + 10}

RECURSIVE SumDrawnHeights(_)
SumDrawnHeights(S) ==
  IF S = {} THEN 0
  ELSE LET n == CHOOSE m \in S : TRUE
       IN  (ops[n].xy[4] - ops[n].xy[2]) + SumDrawnHeights(S \ {n})

\* C5: for each of the eight phases main draws, the height of the phase box
\* (280) exceeds the header height (35) plus the sum of the heights of the
\* phase's item boxes (15 + 12 * methodCount + 8 each).
C5_PhaseHeight ==
  /\ \A k \in StepsOf({"draw_phase_box"}) :
        /\ steps[k].xy[4] - steps[k].xy[2] = 280
        /\ Cardinality(ItemBoxes(k)) = Len(steps[k].items)
        /\ SumDrawnHeights(ItemBoxes(k)) = SumItemHeights(steps[k].items, 1)
        /\ steps[k].xy[4] - steps[k].xy[2] > 35 + SumDrawnHeights(ItemBoxes(k))
  /\ pc = "done" => Cardinality(StepsOf({"draw_phase_box"})) = 8

\* All eight phases have been drawn, the tallest (ten methods) among them.
C5_Witness ==
  /\ pc = "done"
  /\ Cardinality(StepsOf({"draw_phase_box"})) = 8
  /\ \E k \in StepsOf({"draw_phase_box"}) : SumDrawnHeights(ItemBoxes(k)) = 189

Sections == {"title", "row1", "row2", "legend", "notes", "connector"}

C6_State ==
  /\ Cardinality(StepsOf({"img.save"})) <= 1
  /\ Len(saved) <= 1
  /\ \A k \in DOMAIN saved :
        saved[k] = "/home/user/AWSSDK.Extensions/docs/S3-Couchbase-Implementation-Roadmap.png"
  /\ pc \in {"done", "crashed"} => Cardinality(StepsOf({"img.save"})) = 1
  /\ \A k \in StepsOf({"img.save"}) :
        /\ k = Len(steps)
        /\ \A sec \in Sections : \E n \in DOMAIN ops : ops[n].sec = sec
        /\ Cardinality(StepsOf({"draw_phase_box"})) = 8
  /\ printed # << >> => Len(saved) = 1
  /\ pc = "crashed" => saved = << >> /\ printed = << >>
  /\ pc = "done" => Len(saved) = 1 /\ Len(printed) = 2

\* C6: in every run of main the image is saved exactly once, to the fixed
\* output path, after every drawing operation has been issued, and nothing
\* is drawn after the save; the two confirmation lines are printed only
\* after the save succeeded, and when the save fails main ends with the
\* error and neither line printed.
C6_SaveLast ==
  /\ []C6_State
  /\ [][StepsOf({"img.save"}) # {} => ops' = ops /\ steps' = steps /\ saved' = saved]_vars

\* The save failed after all the drawing was issued.
C6_Witness ==
  /\ pc = "crashed"
  /\ StepsOf({"img.save"}) # {}
  /\ Len(ops) > 100

StepNames == [k \in DOMAIN steps |-> <<steps[k].step, steps[k].fn>>]

IsPrefix(a, b) == Len(a) <= Len(b) /\ \A k \in DOMAIN a : a[k] = b[k]

RowOrder(row, n) ==
  [k \in 1..(2 * n - 1) |->
     IF k % 2 = 1 THEN <<row, "draw_phase_box">> ELSE <<row, "draw_arrow">>]

ConnectorOrder ==
  << <<"connector", "draw_arrow">>, <<"connector", "draw.line">>, <<"connector", "draw_arrow">> >>

OrderAsStated ==
  << <<"title", "draw.text">>, <<"subtitle", "draw.text">> >>
  \o RowOrder("row1", 5) \o RowOrder("row2", 3)
  \o << <<"legend", "draw_rounded_rect">> >>
  \o ConnectorOrder
  \o << <<"notes", "draw_rounded_rect">> >>
  \o << <<"save", "img.save">> >>

OrderInCode ==
  << <<"title", "draw.text">>, <<"subtitle", "draw.text">> >>
  \o RowOrder("row1", 5) \o RowOrder("row2", 3)
  \o << <<"legend", "draw_rounded_rect">> >>
  \o << <<"notes", "draw_rounded_rect">> >>
  \o ConnectorOrder
  \o << <<"save", "img.save">> >>

\* Within a row the boxes go left to right, and the arrow after a box runs
\* from its right edge towards the next box.
LeftToRight ==
  \A k \in StepsOf({"draw_arrow"}) :
     steps[k].step \in {"row1", "row2"} =>
        /\ steps[k - 1].fn = "draw_phase_box"
        /\ steps[k - 1].xy[3] < steps[k].xy[1]
        /\ k + 1 \in DOMAIN steps =>
              /\ steps[k + 1].fn = "draw_phase_box"
              /\ steps[k].xy[3] < steps[k + 1].xy[1]

Finished == pc \in {"print1", "print2", "done", "crashed"}

\* C7 (as stated): main draws title and subtitle, the five row-1 boxes left
\* to right each followed by its arrow, the three row-2 boxes likewise, the
\* legend box, the connector from row 1 to row 2, the notes box, and then
\* saves.
C7_AsStated ==
  /\ IsPrefix(StepNames, OrderAsStated)
  /\ LeftToRight
  /\ Finished => StepNames = OrderAsStated

\* C7 (amended): main draws title and subtitle, the five row-1 boxes left to
\* right each followed by its arrow, the three row-2 boxes likewise, the
\* legend box, the notes box, the connector from row 1 to row 2 (arrow,
\* line, arrow), and then saves: the notes box comes before the connector.
C7_Order ==
  /\ IsPrefix(StepNames, OrderInCode)
  /\ LeftToRight
  /\ Finished => StepNames = OrderInCode

\* Everything was drawn and the image saved.
C7_Witness ==
  /\ pc = "done"
  /\ Len(steps) = 22
  /\ steps[18].step = "notes" /\ steps[19].step = "connector"

\* C8: every draw_arrow call of main (four between the row-1 boxes, two
\* between the row-2 boxes, two in the connector) goes strictly right on one
\* y or strictly down on one x, so each one gets its arrowhead.
C8_ArrowsSupported ==
  /\ \A k \in StepsOf({"draw_arrow"}) :
        LET a == steps[k].xy
        IN  \/ a[3] > a[1] /\ a[4] = a[2]
            \/ a[3] = a[1] /\ a[4] > a[2]
  /\ Cardinality(Heads(ops)) = Cardinality(StepsOf({"draw_arrow"}))
  /\ \A n \in Heads(ops) :
        /\ ops[n - 1].op = "line"
        /\ LET end == <<ops[n - 1].xy[3], ops[n - 1].xy[4]>>
           IN  IsRightHead(ops[n], end) \/ IsDownHead(ops[n], end)
  /\ Finished => Cardinality(StepsOf({"draw_arrow"})) = 8

\* All eight arrows are drawn, the connector's two vertical ones included.
C8_Witness ==
  /\ pc = "done"
  /\ Cardinality(StepsOf({"draw_arrow"})) = 8
  /\ \E k \in StepsOf({"draw_arrow"}) : steps[k].xy[1] = steps[k].xy[3]
  /\ \E k \in StepsOf({"draw_arrow"}) : steps[k].xy[2] = steps[k].xy[4]

\* The y coordinates of a primitive.
Ys(p) == IF Len(p.xy) = 2 THEN {p.xy[2]} ELSE {p.xy[2], p.xy[4]}

\* C9: every element of the legend (header band, five swatch/label rows,
\* separator line, eleven statistics lines) is placed at a y coordinate
\* between legend_y and legend_y + legend_h (380 to 660).
C9_LegendInside ==
  \A n \in DOMAIN ops :
     ops[n].sec = "legend" => \A y \in Ys(ops[n]) : 380 <= y /\ y <= 660

Boxes == StepsOf({"draw_phase_box", "draw_rounded_rect"})

Disjoint(a, b) == a[3] < b[1] \/ b[3] < a[1] \/ a[4] < b[2] \/ b[4] < a[2]

\* C10: the ten outer boxes of main (five row-1 phase boxes, three row-2
\* phase boxes, the legend box, the notes box) lie inside the 1600x1200
\* canvas and no two of them overlap.
C10_BoxesDisjoint ==
  /\ \A k \in Boxes :
        LET b == steps[k].xy
        IN  0 <= b[1] /\ b[1] < b[3] /\ b[3] <= 1600 - 1
            /\ 0 <= b[2] /\ b[2] < b[4] /\ b[4] <= 1200 - 1
  /\ \A k \in Boxes : \A m \in Boxes : k # m => Disjoint(steps[k].xy, steps[m].xy)
  /\ Finished => Cardinality(Boxes) = 10

\* All ten boxes are drawn.
C10_Witness ==
  /\ pc = "done"
  /\ Cardinality(Boxes) = 10
  /\ \E k \in Boxes : steps[k].step = "legend"
  /\ \E k \in Boxes : steps[k].step = "notes"

====
